---- MODULE Spec2Model ----
(***************************************************************************)
(* Election-event check-in service: the persistent store (events,          *)
(* participants, check_in_logs), the request handlers of routes/events.ts  *)
(* and routes/participants.ts, and the clock.  Every handler is a sequence *)
(* of steps, one per awaited database (or gateway) round trip, so that     *)
(* concurrent requests interleave exactly at the awaits of the code.       *)
(***************************************************************************)
EXTENDS Integers, Sequences, FiniteSets, TLC

VARIABLES events, participants, checkInLogs, reqs, now, nextEventId, gatewayCalls,
          access, users, zone

vars == <<events, participants, checkInLogs, reqs, now, nextEventId, gatewayCalls, access, users, zone>>

store == <<events, participants, checkInLogs>>

-----------------------------------------------------------------------------
(* Bounds of the model.                                                    *)

\* Check-in requests of one run of the ledger, and event creations.
MaxCheckIns == 3
MaxEventReqs == 1
\* Check-in requests of one run of the registry.
MaxRegistryCheckIns == 3
\* Requests of one run of the gate.
MaxGateReqs == 1
\* Searches of one run of the identity verification.
MaxSearchReqs == 2
\* Signups, logins, refreshes and logouts of one run of the accounts.
MaxAccountReqs == 3
\* Check-ins and queries of one run of the reports.
MaxReportReqs == 3

MaxIntegrityReqs == 2
\* The clock runs from 0 to MaxTime; a day has TicksPerDay ticks.
MaxTime == 2
TicksPerDay == 2

-----------------------------------------------------------------------------
(* Values.                                                                 *)

\* SQL NULL / JavaScript null.
null == "null"
\* A request field that was not sent (undefined) or sent empty.
absent == ""
\* No row / no id (a findOne that returned null, an id not yet generated).
NoId == 0
\* No timestamp read yet.
NoTime == -1

\* JavaScript truthiness of a string-or-null value: !x holds for undefined,
\* null and the empty string.
Falsy(x) == x \in {absent, null}

\* The expression `x || null` of the handlers.
OrNull(x) == IF Falsy(x) THEN null ELSE x

\* UserRole
ADMIN == "admin"
USER == "user"

\* The accounts of the users table: two admins, a user attached to the first
\* admin and a user attached to no admin.
Users ==
  [ a1 |-> [id |-> "a1", role |-> ADMIN, adminId |-> null],
    a2 |-> [id |-> "a2", role |-> ADMIN, adminId |-> null],
    u1 |-> [id |-> "u1", role |-> USER, adminId |-> "a1"],
    u0 |-> [id |-> "u0", role |-> USER, adminId |-> null] ]

UserIds == DOMAIN Users

\* A refresh token names its user and the request that issued it; NoToken is
\* the null of the refreshToken column and the cookie that was not sent.
NoToken == [userId |-> null, issue |-> NoId]

\* The rows of the users table for these accounts: each with its name, its
\* email, its (hashed) password and no refresh token.
UserRows ==
  {[id |-> u, name |-> u, email |-> u, password |-> "secret", role |-> Users[u].role,
    adminId |-> Users[u].adminId, refreshToken |-> NoToken] : u \in UserIds}

\* Date.setHours(0, 0, 0, 0): the midnight that starts the day of t.
StartOfDay(t) == t - (t % TicksPerDay)

\* new Date(s) of a request string: the calendar date of a string that
\* parses, and Invalid Date for any other.
InvalidDate == <<>>
NewDate(s) ==
  CASE s = "1990-01-01" -> <<1990, 1, 1>>
    [] s = "1991-02-02" -> <<1991, 2, 2>>
    [] OTHER -> InvalidDate

-----------------------------------------------------------------------------
(* Access control.                                                         *)

\* A check that lets every admin in.
checkEventAccess_AnyAdmin(event, user) ==
  IF user.role = ADMIN
    THEN TRUE
    ELSE user.adminId # null /\ event.createdById = user.adminId

\* checkEventAccess(event, user)
checkEventAccess(event, user) ==
  IF user.role = ADMIN
    THEN event.createdById = user.id
    ELSE user.adminId # null /\ event.createdById = user.adminId

\* No access decision under study.
NoAccess == <<>>

-----------------------------------------------------------------------------
(* Requests.  A request is appended to reqs when its handler is entered;   *)
(* the record carries the handler's local variables and, once answered,    *)
(* the response.  The position of a request in reqs stands for the uuid    *)
(* the store generates for the row that request inserts.  One action is    *)
(* one awaited round trip together with the synchronous code that follows  *)
(* it up to the next await; the synchronous prefix of a handler runs with  *)
(* its first query.  A read of the clock after an await is a step of its   *)
(* own, since the handler resumes some time after the store has answered.  *)

NoBody ==
  [eventName |-> absent, name |-> absent, dateOfBirth |-> absent, sex |-> absent,
   county |-> absent, constituency |-> absent, ward |-> absent,
   pollingCenter |-> absent]

NoFilters == [county |-> absent, constituency |-> absent, ward |-> absent]

\* Requests already answered.
Done == {i \in DOMAIN reqs : reqs[i].pc = "done"}

\* before: the requests that had been answered when this one was received;
\* lookup: what lookupVoter answered this request, once it has.
Request(kind, user, eventId, idNumber, body) ==
  [kind |-> kind, user |-> user, eventId |-> eventId, idNumber |-> idNumber,
   body |-> body, date |-> absent, pc |-> "start", participantId |-> NoId,
   today |-> NoTime, checkedInAt |-> NoTime, lookup |-> absent, status |-> 0,
   data |-> <<>>, before |-> Done]

Count(kind) == Cardinality({i \in DOMAIN reqs : reqs[i].kind = kind})

\* The handler is entered and runs to an await (pc), or answers at once.
Enter(r, pc) == reqs' = Append(reqs, [r EXCEPT !.pc = pc])
Answer(r, status, data) ==
  reqs' = Append(reqs, [r EXCEPT !.pc = "done", !.status = status, !.data = data])

\* The handler resumes after an await and runs to the next one.
Goto(i, pc) == reqs' = [reqs EXCEPT ![i].pc = pc]

\* res.status(status).json(...) followed by return (or the end of the handler).
Respond(i, status, data) ==
  reqs' = [reqs EXCEPT ![i].pc = "done", ![i].status = status, ![i].data = data]

At(i, kind, pc) == reqs[i].kind = kind /\ reqs[i].pc = pc

\* eventRepository.findOne({ where: { eventId } })
EventRows(eventId) == {e \in events : e.eventId = eventId}

\* The rows of S as a sequence ordered by key descending (order: { key: 'DESC' });
\* rows with equal keys come in any order.
Descending(S, key) ==
  {q \in [1..Cardinality(S) -> S] :
     /\ \A i, j \in DOMAIN q : i # j => q[i] # q[j]
     /\ \A i, j \in DOMAIN q : i < j => key[q[i]] >= key[q[j]]}

\* requireAdmin middleware: the routes it guards are "Admin only".
requireAdmin(user) == user.role = ADMIN

-----------------------------------------------------------------------------
(* POST /events                                                            *)

\* A create that takes the body as it comes.
CreateEventBegin_NoValidation(u, b) ==
  /\ LET r == Request("createEvent", u, NoId, absent, b) IN
       IF ~requireAdmin(Users[u]) THEN Answer(r, 403, <<>>)
       ELSE Enter(r, "saveEvent")
  /\ UNCHANGED <<store, now, nextEventId, gatewayCalls, access, users, zone>>

CreateEventBegin(u, b) ==
  /\ LET r == Request("createEvent", u, NoId, absent, b) IN
       IF ~requireAdmin(Users[u]) THEN Answer(r, 403, <<>>)
       ELSE IF Falsy(b.eventName) \/ Falsy(b.county) THEN Answer(r, 400, <<>>)
       ELSE Enter(r, "saveEvent")
  /\ UNCHANGED <<store, now, nextEventId, gatewayCalls, access, users, zone>>

NewEvent(id, r) ==
  [eventId |-> id, eventName |-> r.body.eventName, county |-> r.body.county,
   constituency |-> OrNull(r.body.constituency), ward |-> OrNull(r.body.ward),
   createdById |-> r.user, createdAt |-> now]

CreateEventSave(i) ==
  /\ At(i, "createEvent", "saveEvent")
  /\ events' = events \cup {NewEvent(nextEventId, reqs[i])}
  /\ nextEventId' = nextEventId + 1
  /\ reqs' = [reqs EXCEPT ![i].pc = "done", ![i].status = 201,
                          ![i].eventId = nextEventId, ![i].data = <<nextEventId>>]
  /\ UNCHANGED <<participants, checkInLogs, now, gatewayCalls, access, users, zone>>

-----------------------------------------------------------------------------
(* GET /events                                                             *)

EventsCreatedBy(userId) == {e \in events : e.createdById = userId}

EventCreatedAt == [e \in events |-> e.createdAt]

EventIdOf == [e \in events |-> e.eventId]

\* events.map(...) of the response: the events in the order found.
Listing(q, f) == [i \in DOMAIN q |-> f[q[i]]]

\* A listing that shows every event to everyone.
ListEvents_All(u) ==
  /\ \E q \in Descending(events, EventCreatedAt) :
       Answer(Request("listEvents", u, NoId, absent, NoBody), 200, Listing(q, EventIdOf))
  /\ UNCHANGED <<store, now, nextEventId, gatewayCalls, access, users, zone>>

ListEvents(u) ==
  /\ LET r == Request("listEvents", u, NoId, absent, NoBody)
         user == Users[u] IN
       IF user.role = ADMIN
         THEN \E q \in Descending(EventsCreatedBy(user.id), EventCreatedAt) :
                Answer(r, 200, Listing(q, EventIdOf))
         ELSE IF Falsy(user.adminId)
           THEN Answer(r, 403, <<>>)
           ELSE \E q \in Descending(EventsCreatedBy(user.adminId), EventCreatedAt) :
                  Answer(r, 200, Listing(q, EventIdOf))
  /\ UNCHANGED <<store, now, nextEventId, gatewayCalls, access, users, zone>>

-----------------------------------------------------------------------------
(* GET /events/:eventId                                                    *)

\* The access check written out in the handler.
GetEventAccess(event, user) ==
  IF user.role = ADMIN
    THEN ~(event.createdById # user.id)
    ELSE ~(Falsy(user.adminId) \/ event.createdById # user.adminId)

GetEvent(u, e) ==
  /\ LET r == Request("getEvent", u, e, absent, NoBody) IN
       IF EventRows(e) = {} THEN Answer(r, 404, <<>>)
       ELSE IF \E ev \in EventRows(e) : ~GetEventAccess(ev, Users[u])
         THEN Answer(r, 403, <<>>)
       ELSE Answer(r, 200, <<e>>)
  /\ UNCHANGED <<store, now, nextEventId, gatewayCalls, access, users, zone>>

-----------------------------------------------------------------------------
(* DELETE /events/:eventId                                                 *)

\* A delete that any admin may make.
DeleteEventBegin_AnyAdmin(u, e) ==
  /\ LET r == Request("deleteEvent", u, e, absent, NoBody) IN
       IF ~requireAdmin(Users[u]) THEN Answer(r, 403, <<>>)
       ELSE IF EventRows(e) = {} THEN Answer(r, 404, <<>>)
       ELSE Enter(r, "removeEvent")
  /\ UNCHANGED <<store, now, nextEventId, gatewayCalls, access, users, zone>>

DeleteEventBegin(u, e) ==
  /\ LET r == Request("deleteEvent", u, e, absent, NoBody) IN
       IF ~requireAdmin(Users[u]) THEN Answer(r, 403, <<>>)
       ELSE IF EventRows(e) = {} THEN Answer(r, 404, <<>>)
       ELSE IF \E ev \in EventRows(e) : ev.createdById # u THEN Answer(r, 403, <<>>)
       ELSE Enter(r, "removeEvent")
  /\ UNCHANGED <<store, now, nextEventId, gatewayCalls, access, users, zone>>

\* DELETE FROM events: participants.eventId references events with no ON DELETE
\* action, so a participant of the event blocks the delete;
\* check_in_logs.eventId is declared ON DELETE CASCADE.
RemoveBlocked(eventId) == \E p \in participants : p.eventId = eventId

DeleteEventRemove(i) ==
  /\ At(i, "deleteEvent", "removeEvent")
  /\ LET r == reqs[i] IN
       IF RemoveBlocked(r.eventId)
         THEN /\ Respond(i, 500, <<>>)
              /\ UNCHANGED store
         ELSE /\ events' = events \ EventRows(r.eventId)
              /\ checkInLogs' = {l \in checkInLogs : l.eventId # r.eventId}
              /\ UNCHANGED participants
              /\ Respond(i, 200, <<>>)
  /\ UNCHANGED <<now, nextEventId, gatewayCalls, access, users, zone>>

-----------------------------------------------------------------------------
(* POST /participants/search                                               *)

\* The filters built from the event: county always, constituency and ward
\* when the event has them.
Filters(event) ==
  [county |-> event.county,
   constituency |-> IF Falsy(event.constituency) THEN absent ELSE event.constituency,
   ward |-> IF Falsy(event.ward) THEN absent ELSE event.ward]

\* A search that lets the caller's region values override the event's.
SearchBegin_CallerFilters(u, e, idn, b) ==
  /\ LET r == Request("search", u, e, idn, b) IN
       IF e = NoId \/ Falsy(idn)
         THEN Answer(r, 400, <<>>) /\ UNCHANGED gatewayCalls
       ELSE IF EventRows(e) = {}
         THEN Answer(r, 404, <<>>) /\ UNCHANGED gatewayCalls
       ELSE IF \E ev \in EventRows(e) : ~checkEventAccess(ev, Users[u])
         THEN Answer(r, 403, <<>>) /\ UNCHANGED gatewayCalls
       ELSE \E ev \in EventRows(e) :
              /\ Enter(r, "lookupVoter")
              /\ gatewayCalls' = gatewayCalls \cup
                   {[req |-> Len(reqs) + 1, idNumber |-> idn,
                     filters |-> IF Falsy(b.county) THEN Filters(ev)
                                 ELSE [county |-> b.county, constituency |-> b.constituency,
                                       ward |-> b.ward]]}
  /\ UNCHANGED <<store, now, nextEventId, access, users, zone>>

\* A search that looks at the county of the event before the access check.
SearchBegin_CountyFirst(u, e, idn, b) ==
  /\ LET r == Request("search", u, e, idn, b) IN
       IF e = NoId \/ Falsy(idn)
         THEN Answer(r, 400, <<>>) /\ UNCHANGED gatewayCalls
       ELSE IF EventRows(e) = {}
         THEN Answer(r, 404, <<>>) /\ UNCHANGED gatewayCalls
       ELSE IF \E ev \in EventRows(e) : Falsy(ev.county)
         THEN Answer(r, 400, <<>>) /\ UNCHANGED gatewayCalls
       ELSE IF \E ev \in EventRows(e) : ~checkEventAccess(ev, Users[u])
         THEN Answer(r, 403, <<>>) /\ UNCHANGED gatewayCalls
       ELSE \E ev \in EventRows(e) :
              /\ Enter(r, "lookupVoter")
              /\ gatewayCalls' = gatewayCalls \cup
                   {[req |-> Len(reqs) + 1, idNumber |-> idn, filters |-> Filters(ev)]}
  /\ UNCHANGED <<store, now, nextEventId, access, users, zone>>

SearchBegin(u, e, idn, b) ==
  /\ LET r == Request("search", u, e, idn, b) IN
       IF e = NoId \/ Falsy(idn)
         THEN Answer(r, 400, <<>>) /\ UNCHANGED gatewayCalls
       ELSE IF EventRows(e) = {}
         THEN Answer(r, 404, <<>>) /\ UNCHANGED gatewayCalls
       ELSE IF \E ev \in EventRows(e) : ~checkEventAccess(ev, Users[u])
         THEN Answer(r, 403, <<>>) /\ UNCHANGED gatewayCalls
       ELSE IF \E ev \in EventRows(e) : Falsy(ev.county)
         THEN Answer(r, 400, <<>>) /\ UNCHANGED gatewayCalls
       ELSE \E ev \in EventRows(e) :
              /\ Enter(r, "lookupVoter")
              /\ gatewayCalls' = gatewayCalls \cup
                   {[req |-> Len(reqs) + 1, idNumber |-> idn, filters |-> Filters(ev)]}
  /\ UNCHANGED <<store, now, nextEventId, access, users, zone>>

\* lookupVoter answers with a record, answers null, or throws.
LookupOutcomes == {"found", "none", "error"}

\* res.status(status).json(...) of the request lookupVoter has answered.
Looked(i, outcome, status, data) ==
  reqs' = [reqs EXCEPT ![i].pc = "done", ![i].lookup = outcome,
                       ![i].status = status, ![i].data = data]

\* A lookup that reports a gateway failure as no match.
SearchLookup_ErrorAsNone(i, outcome) ==
  /\ At(i, "search", "lookupVoter")
  /\ CASE outcome = "found" -> Looked(i, outcome, 200, <<reqs[i].idNumber>>)
       [] outcome = "none" -> Looked(i, outcome, 404, <<>>)
       [] outcome = "error" -> Looked(i, outcome, 404, <<>>)
  /\ UNCHANGED <<store, now, nextEventId, gatewayCalls, access, users, zone>>

\* A lookup that keeps the voter it found as a participant of the event.
SearchLookup_KeepsFound(i, outcome) ==
  /\ At(i, "search", "lookupVoter")
  /\ CASE outcome = "found" ->
            /\ Looked(i, outcome, 200, <<reqs[i].idNumber>>)
            /\ participants' = participants \cup
                 {[id |-> i, eventId |-> reqs[i].eventId, idNumber |-> reqs[i].idNumber,
                   name |-> "Ann", dateOfBirth |-> <<1990, 1, 1>>, sex |-> "F",
                   county |-> null, constituency |-> null, ward |-> null,
                   pollingCenter |-> null, createdAt |-> now]}
       [] outcome = "none" -> Looked(i, outcome, 404, <<>>) /\ UNCHANGED participants
       [] outcome = "error" -> Looked(i, outcome, 500, <<>>) /\ UNCHANGED participants
  /\ UNCHANGED <<events, checkInLogs, now, nextEventId, gatewayCalls, access, users, zone>>

SearchLookup(i, outcome) ==
  /\ At(i, "search", "lookupVoter")
  /\ CASE outcome = "found" -> Looked(i, outcome, 200, <<reqs[i].idNumber>>)
       [] outcome = "none" -> Looked(i, outcome, 404, <<>>)
       [] outcome = "error" -> Looked(i, outcome, 500, <<>>)
  /\ UNCHANGED <<store, now, nextEventId, gatewayCalls, access, users, zone>>

-----------------------------------------------------------------------------
(* POST /participants/checkin                                              *)

\* A handler that goes on to the participant without the access check.
CheckInBegin_NoGate(u, e, idn, b) ==
  /\ LET r == Request("checkin", u, e, idn, b) IN
       IF e = NoId \/ Falsy(idn) \/ Falsy(b.name) \/ Falsy(b.dateOfBirth) \/ Falsy(b.sex)
         THEN Answer(r, 400, <<>>)
       ELSE IF EventRows(e) = {} THEN Answer(r, 404, <<>>)
       ELSE Enter(r, "findParticipant")
  /\ UNCHANGED <<store, now, nextEventId, gatewayCalls, access, users, zone>>

CheckInBegin(u, e, idn, b) ==
  /\ LET r == Request("checkin", u, e, idn, b) IN
       IF e = NoId \/ Falsy(idn) \/ Falsy(b.name) \/ Falsy(b.dateOfBirth) \/ Falsy(b.sex)
         THEN Answer(r, 400, <<>>)
       ELSE IF EventRows(e) = {} THEN Answer(r, 404, <<>>)
       ELSE IF \E ev \in EventRows(e) : ~checkEventAccess(ev, Users[u])
         THEN Answer(r, 403, <<>>)
       ELSE Enter(r, "findParticipant")
  /\ UNCHANGED <<store, now, nextEventId, gatewayCalls, access, users, zone>>

\* participantRepository.findOne({ where: { eventId, idNumber } }): the rows
\* that match; findOne returns any one of them, or null when there is none.
ParticipantRows(eventId, idNumber) ==
  {p \in participants : p.eventId = eventId /\ p.idNumber = idNumber}

\* A find that never finds: every check-in creates its participant.
CheckInFindParticipant_AlwaysNew(i) ==
  /\ At(i, "checkin", "findParticipant")
  /\ reqs' = [reqs EXCEPT ![i].pc = "saveParticipant", ![i].participantId = NoId]
  /\ UNCHANGED <<store, now, nextEventId, gatewayCalls, access, users, zone>>

CheckInFindParticipant(i) ==
  /\ At(i, "checkin", "findParticipant")
  /\ LET r == reqs[i]
         rows == ParticipantRows(r.eventId, r.idNumber) IN
       IF rows = {}
         THEN reqs' = [reqs EXCEPT ![i].pc = "saveParticipant", ![i].participantId = NoId]
         ELSE \E p \in rows :
                reqs' = [reqs EXCEPT ![i].pc = "saveParticipant", ![i].participantId = p.id]
  /\ UNCHANGED <<store, now, nextEventId, gatewayCalls, access, users, zone>>

\* The demographic fields both branches of find-or-create write.
Demographics(b) ==
  [name |-> b.name, dateOfBirth |-> NewDate(b.dateOfBirth), sex |-> b.sex,
   county |-> OrNull(b.county), constituency |-> OrNull(b.constituency),
   ward |-> OrNull(b.ward), pollingCenter |-> OrNull(b.pollingCenter)]

\* participantRepository.create({...}) of a new row, id generated by the store.
NewParticipant(id, r) ==
  LET d == Demographics(r.body) IN
  [id |-> id, eventId |-> r.eventId, idNumber |-> r.idNumber, name |-> d.name,
   dateOfBirth |-> d.dateOfBirth, sex |-> d.sex, county |-> d.county,
   constituency |-> d.constituency, ward |-> d.ward,
   pollingCenter |-> d.pollingCenter, createdAt |-> now]

\* An update that keeps the stored value of an optional field the request
\* leaves out.
UpdatedParticipant_KeepAbsent(p, r) ==
  LET d == Demographics(r.body)
      Keep(new, old) == IF new = null THEN old ELSE new IN
  [p EXCEPT !.name = d.name, !.dateOfBirth = d.dateOfBirth, !.sex = d.sex,
            !.county = Keep(d.county, p.county),
            !.constituency = Keep(d.constituency, p.constituency),
            !.ward = Keep(d.ward, p.ward),
            !.pollingCenter = Keep(d.pollingCenter, p.pollingCenter)]

\* The found row with its mutable fields overwritten.
UpdatedParticipant(p, r) ==
  LET d == Demographics(r.body) IN
  [p EXCEPT !.name = d.name, !.dateOfBirth = d.dateOfBirth, !.sex = d.sex,
            !.county = d.county, !.constituency = d.constituency, !.ward = d.ward,
            !.pollingCenter = d.pollingCenter]

\* A participants table with no foreign key to events.
ParticipantRejected_NoForeignKey(row) == row.dateOfBirth = InvalidDate

\* The store rejects the write of a participant row: the event row it
\* references is gone, or the date column is given Invalid Date.  The entity
\* declares no unique index on (eventId, idNumber).
ParticipantRejected(row) ==
  \/ EventRows(row.eventId) = {}
  \/ row.dateOfBirth = InvalidDate

\* A find-or-create that writes only the rows it creates.
CheckInSaveParticipant_CreateOnly(i) ==
  /\ At(i, "checkin", "saveParticipant")
  /\ LET r == reqs[i] IN
       IF r.participantId = NoId
         THEN LET row == NewParticipant(i, r) IN
              IF ParticipantRejected(row)
                THEN /\ Respond(i, 500, <<>>)
                     /\ UNCHANGED participants
                ELSE /\ participants' = participants \cup {row}
                     /\ reqs' = [reqs EXCEPT ![i].pc = "readToday", ![i].participantId = i]
         ELSE /\ Goto(i, "readToday")
              /\ UNCHANGED participants
  /\ UNCHANGED <<events, checkInLogs, now, nextEventId, gatewayCalls, access, users, zone>>

CheckInSaveParticipant(i) ==
  /\ At(i, "checkin", "saveParticipant")
  /\ LET r == reqs[i] IN
       IF r.participantId = NoId
         THEN LET row == NewParticipant(i, r) IN
              IF ParticipantRejected(row)
                THEN /\ Respond(i, 500, <<>>)
                     /\ UNCHANGED participants
                ELSE /\ participants' = participants \cup {row}
                     /\ reqs' = [reqs EXCEPT ![i].pc = "readToday", ![i].participantId = i]
         ELSE IF \E p \in participants :
                   p.id = r.participantId /\ ParticipantRejected(UpdatedParticipant(p, r))
                THEN /\ Respond(i, 500, <<>>)
                     /\ UNCHANGED participants
                ELSE /\ participants' =
                          {IF p.id = r.participantId THEN UpdatedParticipant(p, r) ELSE p :
                             p \in participants}
                     /\ Goto(i, "readToday")
  /\ UNCHANGED <<events, checkInLogs, now, nextEventId, gatewayCalls, access, users, zone>>

\* const today = new Date(); today.setHours(0, 0, 0, 0);
CheckInReadToday(i) ==
  /\ At(i, "checkin", "readToday")
  /\ reqs' = [reqs EXCEPT ![i].pc = "findCheckIn", ![i].today = StartOfDay(now)]
  /\ UNCHANGED <<store, now, nextEventId, gatewayCalls, access, users, zone>>

\* checkInLogRepository.findOne({ where: { participantId, eventId, checkInDate } })
CheckInRows(participantId, eventId, checkInDate) ==
  {l \in checkInLogs : /\ l.participantId = participantId
                       /\ l.eventId = eventId
                       /\ l.checkInDate = checkInDate}

\* The handler without its look for a check-in of today.
CheckInFindCheckIn_NoLook(i) ==
  /\ At(i, "checkin", "findCheckIn")
  /\ Goto(i, "createLog")
  /\ UNCHANGED <<store, now, nextEventId, gatewayCalls, access, users, zone>>

CheckInFindCheckIn(i) ==
  /\ At(i, "checkin", "findCheckIn")
  /\ LET r == reqs[i] IN
       IF CheckInRows(r.participantId, r.eventId, r.today) # {}
         THEN Respond(i, 400, <<>>)
         ELSE Goto(i, "createLog")
  /\ UNCHANGED <<store, now, nextEventId, gatewayCalls, access, users, zone>>

\* checkInLogRepository.create({ ..., checkedInAt: new Date() })
CheckInCreateLog(i) ==
  /\ At(i, "checkin", "createLog")
  /\ reqs' = [reqs EXCEPT ![i].pc = "saveCheckIn", ![i].checkedInAt = now]
  /\ UNCHANGED <<store, now, nextEventId, gatewayCalls, access, users, zone>>

\* A row whose date is its timestamp as read.
NewCheckInLog_Timestamp(id, r) ==
  [id |-> id, participantId |-> r.participantId, eventId |-> r.eventId,
   checkedInById |-> r.user, checkInDate |-> r.checkedInAt, checkedInAt |-> r.checkedInAt]

NewCheckInLog(id, r) ==
  [id |-> id, participantId |-> r.participantId, eventId |-> r.eventId,
   checkedInById |-> r.user, checkInDate |-> r.today, checkedInAt |-> r.checkedInAt]

\* The table without its unique index.
UniqueViolation_NoIndex(row) == FALSE

\* @Index(['participantId', 'eventId', 'checkInDate'], { unique: true })
UniqueViolation(row) == CheckInRows(row.participantId, row.eventId, row.checkInDate) # {}

\* The foreign keys of check_in_logs: participantId and eventId.
CheckInLogOrphan(row) ==
  \/ EventRows(row.eventId) = {}
  \/ ~\E p \in participants : p.id = row.participantId

\* A save that keeps one row per participant and event: the new check-in
\* takes the place of the earlier one.
CheckInSaveCheckIn_Overwrites(i) ==
  /\ At(i, "checkin", "saveCheckIn")
  /\ LET row == NewCheckInLog(i, reqs[i]) IN
       IF UniqueViolation(row) \/ CheckInLogOrphan(row)
         THEN /\ Respond(i, 500, <<>>)
              /\ UNCHANGED checkInLogs
         ELSE /\ checkInLogs' =
                   {l \in checkInLogs : ~(l.participantId = row.participantId
                                           /\ l.eventId = row.eventId)} \cup {row}
              /\ Respond(i, 201, <<row.id, row.participantId>>)
  /\ UNCHANGED <<events, participants, now, nextEventId, gatewayCalls, access, users, zone>>

\* await checkInLogRepository.save(checkInLog): a rejected insert throws, and
\* the catch of the handler answers 500.
CheckInSaveCheckIn(i) ==
  /\ At(i, "checkin", "saveCheckIn")
  /\ LET row == NewCheckInLog(i, reqs[i]) IN
       IF UniqueViolation(row) \/ CheckInLogOrphan(row)
         THEN /\ Respond(i, 500, <<>>)
              /\ UNCHANGED checkInLogs
         ELSE /\ checkInLogs' = checkInLogs \cup {row}
              /\ Respond(i, 201, <<row.id, row.participantId>>)
  /\ UNCHANGED <<events, participants, now, nextEventId, gatewayCalls, access, users, zone>>

-----------------------------------------------------------------------------
(* GET /participants/event/:eventId                                        *)

ListParticipantsBegin(u, e) ==
  /\ LET r == Request("listParticipants", u, e, absent, NoBody) IN
       IF EventRows(e) = {} THEN Answer(r, 404, <<>>)
       ELSE IF \E ev \in EventRows(e) : ~checkEventAccess(ev, Users[u])
         THEN Answer(r, 403, <<>>)
       ELSE Enter(r, "findParticipants")
  /\ UNCHANGED <<store, now, nextEventId, gatewayCalls, access, users, zone>>

ParticipantCreatedAt == [p \in participants |-> p.createdAt]

\* One participant of the response with its checkInLogs relation.
ParticipantView ==
  [p \in participants |->
     [id |-> p.id, idNumber |-> p.idNumber, name |-> p.name,
      checkInLogs |-> {l.id : l \in {x \in checkInLogs : x.participantId = p.id}}]]

ListParticipantsFind(i) ==
  /\ At(i, "listParticipants", "findParticipants")
  /\ \E q \in Descending({p \in participants : p.eventId = reqs[i].eventId},
                         ParticipantCreatedAt) :
       Respond(i, 200, Listing(q, ParticipantView))
  /\ UNCHANGED <<store, now, nextEventId, gatewayCalls, access, users, zone>>

-----------------------------------------------------------------------------
(* GET /participants/event/:eventId/date/:date                             *)

\* The :date strings of the model: the days of the clock, and one that does
\* not parse.
DateParams == {"day0", "day1", "someday"}

\* The midnight that starts the calendar day a :date string names.
DayStart(date) == IF date = "day0" THEN 0 ELSE TicksPerDay

\* new Date(date) followed by setHours(0, 0, 0, 0).  A date-only string is
\* parsed as midnight UTC of its day; the clock of the server, which now and
\* setHours read, runs zone ticks ahead of UTC.
TargetDate(date) ==
  IF date \in {"day0", "day1"} THEN StartOfDay(DayStart(date) + zone) ELSE NoTime

ListByDateBegin(u, e, date) ==
  /\ LET r == [Request("listByDate", u, e, absent, NoBody) EXCEPT !.date = date] IN
       IF EventRows(e) = {} THEN Answer(r, 404, <<>>)
       ELSE IF \E ev \in EventRows(e) : ~checkEventAccess(ev, Users[u])
         THEN Answer(r, 403, <<>>)
       ELSE IF TargetDate(date) = NoTime THEN Answer(r, 400, <<>>)
       ELSE Enter(r, "findCheckIns")
  /\ UNCHANGED <<store, now, nextEventId, gatewayCalls, access, users, zone>>

CheckedInAt == [l \in checkInLogs |-> l.checkedInAt]

\* One check-in of the response with its participant relation.
CheckInView ==
  [l \in checkInLogs |->
     [checkInId |-> l.id, checkInDate |-> l.checkInDate,
      participantId |-> l.participantId]]

ListByDateFind(i) ==
  /\ At(i, "listByDate", "findCheckIns")
  /\ \E q \in Descending({l \in checkInLogs : /\ l.eventId = reqs[i].eventId
                                             /\ l.checkInDate = TargetDate(reqs[i].date)},
                         CheckedInAt) :
       Respond(i, 200, Listing(q, CheckInView))
  /\ UNCHANGED <<store, now, nextEventId, gatewayCalls, access, users, zone>>

-----------------------------------------------------------------------------
(* The clock.                                                              *)

Tick ==
  /\ now < MaxTime
  /\ now' = now + 1
  /\ UNCHANGED <<store, reqs, nextEventId, gatewayCalls, access, users, zone>>

-----------------------------------------------------------------------------
(* The check-in ledger under concurrency: from the empty store an admin    *)
(* creates events and accounts with access check in one identity number,   *)
(* any number of requests in flight at once, while the clock runs.         *)

Init ==
  /\ events = {}
  /\ participants = {}
  /\ checkInLogs = {}
  /\ reqs = <<>>
  /\ now = 0
  /\ nextEventId = 1
  /\ gatewayCalls = {}
  /\ access = NoAccess
  /\ users = UserRows
  /\ zone = 0

Rally == [NoBody EXCEPT !.eventName = "Rally", !.county = "R"]

Ann == [NoBody EXCEPT !.name = "Ann", !.dateOfBirth = "1990-01-01", !.sex = "F"]

LedgerEventIds == 1..MaxEventReqs

CreateEvent ==
  \/ Count("createEvent") < MaxEventReqs /\ CreateEventBegin("a1", Rally)
  \/ \E i \in DOMAIN reqs : CreateEventSave(i)

\* The steps of the check-ins in flight.
CheckInStep ==
  \/ \E i \in DOMAIN reqs : CheckInFindParticipant(i)
  \/ \E i \in DOMAIN reqs : CheckInSaveParticipant(i)
  \/ \E i \in DOMAIN reqs : CheckInReadToday(i)
  \/ \E i \in DOMAIN reqs : CheckInFindCheckIn(i)
  \/ \E i \in DOMAIN reqs : CheckInCreateLog(i)
  \/ \E i \in DOMAIN reqs : CheckInSaveCheckIn(i)

CheckIn ==
  /\ Count("checkin") < MaxCheckIns
  /\ \E e \in LedgerEventIds : CheckInBegin("u1", e, "123", Ann)

Next == CreateEvent \/ CheckIn \/ CheckInStep \/ Tick

Spec == Init /\ [][Next]_vars

-----------------------------------------------------------------------------
(* The participant registry: check-ins of two identity numbers with        *)
(* differing demographic payloads, received one after another.             *)

\* Payloads: every field given, every field given another value, and the
\* optional fields absent in part or in whole.
RegistryBodies ==
  { [NoBody EXCEPT !.name = "Ann", !.dateOfBirth = "1990-01-01", !.sex = "F",
                   !.county = "K1", !.constituency = "M1", !.ward = "W1",
                   !.pollingCenter = "P1"],
    [NoBody EXCEPT !.name = "Anne", !.dateOfBirth = "1991-02-02", !.sex = "M",
                   !.county = "K2", !.constituency = "M2", !.ward = "W2",
                   !.pollingCenter = "P2"],
    [NoBody EXCEPT !.name = "Anne", !.dateOfBirth = "1990-01-01", !.sex = "F",
                   !.county = "K2", !.ward = "W1"],
    Ann }

RegistryIdNumbers == {"123", "456"}

RegistryCheckIn ==
  /\ Count("checkin") < MaxRegistryCheckIns
  /\ \A i \in DOMAIN reqs : reqs[i].kind = "checkin" => reqs[i].pc = "done"
  /\ \E idn \in RegistryIdNumbers, b \in RegistryBodies :
       CheckInBegin("u1", 1, idn, b)

NextRegistry == CreateEvent \/ RegistryCheckIn \/ CheckInStep \/ Tick

SpecRegistry == Init /\ [][NextRegistry]_vars

-----------------------------------------------------------------------------
(* Properties of the ledger.                                               *)

CheckIns == {i \in DOMAIN reqs : reqs[i].kind = "checkin"}

\* The requests that resolved a participant and fixed the day: the attempts
\* to record a check-in for a (participant, event, day) triple.
Attempts == {i \in CheckIns : reqs[i].today # NoTime}

SameTriple(i, j) ==
  /\ reqs[i].participantId = reqs[j].participantId
  /\ reqs[i].eventId = reqs[j].eventId
  /\ reqs[i].today = reqs[j].today

\* The identity number of the participant a check-in row references.
IdNumberOf(l) == {p.idNumber : p \in {x \in participants : x.id = l.participantId}}

\* C1: no two check_in_logs rows share (participantId, eventId, checkInDate),
\* and of the attempts on one triple at most one has inserted a row.
C1_UniqueTriple ==
  /\ \A l1, l2 \in checkInLogs :
       (/\ l1.participantId = l2.participantId
        /\ l1.eventId = l2.eventId
        /\ l1.checkInDate = l2.checkInDate) => l1 = l2
  /\ \A i, j \in Attempts :
       (SameTriple(i, j) /\ reqs[i].status = 201 /\ reqs[j].status = 201) => i = j

\* Two attempts on one triple both passed the look for an existing row, one
\* inserted and the index rejected the other.
C1_Witness ==
  \E i, j \in Attempts :
    /\ i # j /\ SameTriple(i, j)
    /\ reqs[i].status = 201
    /\ reqs[j].pc = "done" /\ reqs[j].checkedInAt # NoTime /\ reqs[j].status # 201

\* C2: every answered attempt on a triple is answered Recorded (201) or
\* AlreadyCheckedIn (400), also the one whose insert the unique index rejects.
C2_RecordedOrAlreadyCheckedIn ==
  \A i \in Attempts : reqs[i].pc = "done" => reqs[i].status \in {201, 400}

\* C3: for an event, an identity number and a day there is at most one
\* check_in_logs row over all participant rows, and at most one 201.
C3_OneCreditPerPerson ==
  /\ \A l1, l2 \in checkInLogs :
       (/\ l1.eventId = l2.eventId
        /\ IdNumberOf(l1) = IdNumberOf(l2)
        /\ l1.checkInDate = l2.checkInDate) => l1 = l2
  /\ \A i, j \in Attempts :
       (/\ reqs[i].eventId = reqs[j].eventId
        /\ reqs[i].idNumber = reqs[j].idNumber
        /\ reqs[i].today = reqs[j].today
        /\ reqs[i].status = 201 /\ reqs[j].status = 201) => i = j

\* C4: no two participants rows have the same (eventId, idNumber).
C4_UniqueParticipantKey ==
  \A p1, p2 \in participants :
    (p1.eventId = p2.eventId /\ p1.idNumber = p2.idNumber) => p1 = p2

\* C5: an attempt received after a check-in of the same triple was answered
\* 201 inserts no row, is never answered 201, and is answered 400.
C5_LaterAttemptRejected ==
  \A i, j \in Attempts :
    (j \in reqs[i].before /\ reqs[j].status = 201 /\ SameTriple(i, j)) =>
      /\ ~\E l \in checkInLogs : l.id = i
      /\ reqs[i].status # 201
      /\ reqs[i].pc = "done" => reqs[i].status = 400

C5_Witness ==
  \E i, j \in Attempts :
    /\ j \in reqs[i].before /\ reqs[j].status = 201 /\ SameTriple(i, j)
    /\ reqs[i].pc = "done" /\ reqs[i].status = 400

SameKey(i, j) ==
  reqs[i].eventId = reqs[j].eventId /\ reqs[i].idNumber = reqs[j].idNumber

\* The check-ins of j's (event, identity number), up to j and after it, were
\* each received after the previous one was answered.
OneAfterAnother(j) ==
  \A a, b \in CheckIns :
    (a < b /\ a <= j /\ SameKey(a, j) /\ SameKey(b, j)) => a \in reqs[b].before

\* The check-ins of j's (event, identity number) answered 201 before j.
Recorded(j) ==
  {i \in CheckIns : i \in reqs[j].before /\ SameKey(i, j) /\ reqs[i].status = 201}

\* The ids of the check_in_logs rows of j's (event, identity number).
LogsOfKey(j) ==
  {l.id : l \in {x \in checkInLogs :
                   x.eventId = reqs[j].eventId /\ IdNumberOf(x) = {reqs[j].idNumber}}}

-----------------------------------------------------------------------------
(* Properties of the registry.                                             *)

\* The check-ins whose find-or-create has saved its participant.
Resolved ==
  {i \in CheckIns :
     \/ reqs[i].pc \in {"readToday", "findCheckIn", "createLog", "saveCheckIn"}
     \/ reqs[i].today # NoTime}

\* The calendar dates of the date-of-birth strings of the payloads.
DateOfBirth(s) == IF s = "1990-01-01" THEN <<1990, 1, 1>> ELSE <<1991, 2, 2>>

Stored(x) == IF x = absent THEN null ELSE x

\* C7: of two calls of find-or-create with one (eventId, idNumber), run one
\* after the other, both return the same participant id and leave one row for
\* the key; after the second the row has the second call's name, date of
\* birth and sex, and its county, constituency, ward and polling center, null
\* where the call left the field out.
C7_KeyIdempotent ==
  \A i, j \in Resolved :
    (i < j /\ SameKey(i, j)) =>
      /\ reqs[i].participantId = reqs[j].participantId
      /\ Cardinality(ParticipantRows(reqs[j].eventId, reqs[j].idNumber)) = 1
      /\ (~\E k \in Resolved : k > j /\ SameKey(k, j)) =>
           \A p \in ParticipantRows(reqs[j].eventId, reqs[j].idNumber) :
             /\ p.id = reqs[j].participantId
             /\ p.name = reqs[j].body.name
             /\ p.dateOfBirth = DateOfBirth(reqs[j].body.dateOfBirth)
             /\ p.sex = reqs[j].body.sex
             /\ p.county = Stored(reqs[j].body.county)
             /\ p.constituency = Stored(reqs[j].body.constituency)
             /\ p.ward = Stored(reqs[j].body.ward)
             /\ p.pollingCenter = Stored(reqs[j].body.pollingCenter)

\* A call with every optional field followed by a call that leaves them out.
C7_Witness ==
  \E i, j \in Resolved :
    /\ i < j /\ SameKey(i, j)
    /\ reqs[i].body.pollingCenter # absent /\ reqs[j].body.pollingCenter = absent
    /\ reqs[i].body.name # reqs[j].body.name
    /\ \A p \in ParticipantRows(reqs[j].eventId, reqs[j].idNumber) :
         p.pollingCenter = null /\ p.name = reqs[j].body.name

-----------------------------------------------------------------------------
(* The access control resolver as a function: an event and an account are  *)
(* drawn, and the two access checks of the code are applied to them.       *)

AccountIds == {"a1", "a2", "u1"}

Accounts ==
  [id : AccountIds, role : {ADMIN, USER}, adminId : AccountIds \cup {null}]

\* The decisions taken so far: none.
NoResult == [c \in {} |-> FALSE]

InitAccess ==
  /\ events = {}
  /\ participants = {}
  /\ checkInLogs = {}
  /\ reqs = <<>>
  /\ now = 0
  /\ nextEventId = 1
  /\ gatewayCalls = {}
  /\ access \in [event : [createdById : AccountIds], user : Accounts,
                 result : {NoResult}]
  /\ users = UserRows
  /\ zone = 0

\* The decision of check c is recorded.
Decide(c, decision) ==
  /\ c \notin DOMAIN access.result
  /\ access' = [access EXCEPT !.result =
                  [x \in DOMAIN access.result \cup {c} |->
                     IF x = c THEN decision ELSE access.result[x]]]
  /\ UNCHANGED <<store, reqs, now, nextEventId, gatewayCalls, users, zone>>

ApplyCheckEventAccess ==
  Decide("checkEventAccess", checkEventAccess(access.event, access.user))

ApplyGetEventAccess ==
  Decide("GetEventAccess", GetEventAccess(access.event, access.user))

NextAccess == ApplyCheckEventAccess \/ ApplyGetEventAccess

SpecAccess == InitAccess /\ [][NextAccess]_vars

\* The rule of the resolver.
CanAccess(event, user) ==
  \/ user.role = ADMIN /\ event.createdById = user.id
  \/ user.role = USER /\ user.adminId # null /\ event.createdById = user.adminId

\* C8: checkEventAccess yields a boolean for every event and account, equal to
\* the rule: for an admin, the event is its own; for a user, the user has an
\* admin and the event is that admin's.  A user with no admin is denied, and
\* the check written out in GET /events/:eventId decides the same.
C8_CanAccess ==
  /\ \A c \in DOMAIN access.result :
       /\ access.result[c] \in BOOLEAN
       /\ access.result[c] = CanAccess(access.event, access.user)
       /\ (access.user.role = USER /\ access.user.adminId = null) => ~access.result[c]

\* A user with no admin was denied by both checks.
C8_Witness ==
  /\ access.user.role = USER /\ access.user.adminId = null
  /\ DOMAIN access.result = {"checkEventAccess", "GetEventAccess"}
  /\ \A c \in DOMAIN access.result : ~access.result[c]

-----------------------------------------------------------------------------
(* The gate: a store that earlier requests have filled, and a request of   *)
(* any kind by any account.                                                *)

\* Events the two admins have created, the third later than the first two:
\* one with a ward and no constituency, one with a constituency, one with both.
GateEvents ==
  { [eventId |-> 1, eventName |-> "Rally", county |-> "R", constituency |-> null,
     ward |-> "L", createdById |-> "a1", createdAt |-> 0],
    [eventId |-> 2, eventName |-> "Rally", county |-> "R", constituency |-> "M",
     ward |-> null, createdById |-> "a2", createdAt |-> 0],
    [eventId |-> 3, eventName |-> "Rally", county |-> "R", constituency |-> "M",
     ward |-> "L", createdById |-> "a1", createdAt |-> 1] }

\* The participant of identity number 123 checked in at event e, and the row
\* of that check-in, recorded by the creator of the event; the ids of the
\* rows of the filled store are below those the requests give out.
GateParticipant(e) ==
  [id |-> -e.eventId, eventId |-> e.eventId, idNumber |-> "123",
   name |-> "Ann", dateOfBirth |-> <<1990, 1, 1>>, sex |-> "F", county |-> null,
   constituency |-> null, ward |-> null, pollingCenter |-> null,
   createdAt |-> e.createdAt]

GateCheckIn(e) ==
  [id |-> -e.eventId, participantId |-> -e.eventId,
   eventId |-> e.eventId, checkedInById |-> e.createdById,
   checkInDate |-> StartOfDay(e.createdAt), checkedInAt |-> e.createdAt]

InitGate ==
  /\ events \in SUBSET GateEvents
  /\ \E filled \in SUBSET events :
       /\ participants = {GateParticipant(e) : e \in filled}
       /\ checkInLogs = {GateCheckIn(e) : e \in filled}
  /\ reqs = <<>>
  /\ now = TicksPerDay
  /\ nextEventId = Cardinality(GateEvents) + 1
  /\ gatewayCalls = {}
  /\ access = NoAccess
  /\ users = UserRows
  /\ zone = 0

\* The event ids a request names: those of GateEvents, present or not.
GateEventIds == {e.eventId : e \in GateEvents}

GateCreateBodies ==
  {Rally, [Rally EXCEPT !.eventName = absent], [Rally EXCEPT !.county = absent]}

GateCheckInBodies ==
  {Ann, [Ann EXCEPT !.name = absent], [Ann EXCEPT !.dateOfBirth = "soon"]}

GateRequest ==
  /\ Len(reqs) < MaxGateReqs
  /\ \E u \in UserIds :
       \/ \E b \in GateCreateBodies : CreateEventBegin(u, b)
       \/ ListEvents(u)
       \/ \E e \in GateEventIds : GetEvent(u, e)
       \/ \E e \in GateEventIds : DeleteEventBegin(u, e)
       \/ \E e \in GateEventIds \cup {NoId}, idn \in {absent, "123"} :
            SearchBegin(u, e, idn, NoBody)
       \/ \E e \in GateEventIds \cup {NoId}, idn \in {absent, "123", "456"},
             b \in GateCheckInBodies : CheckInBegin(u, e, idn, b)
       \/ \E e \in GateEventIds : ListParticipantsBegin(u, e)
       \/ \E e \in GateEventIds, d \in DateParams : ListByDateBegin(u, e, d)

GateStep ==
  \/ \E i \in DOMAIN reqs : CreateEventSave(i)
  \/ \E i \in DOMAIN reqs : DeleteEventRemove(i)
  \/ \E i \in DOMAIN reqs, o \in LookupOutcomes : SearchLookup(i, o)
  \/ \E i \in DOMAIN reqs : ListParticipantsFind(i)
  \/ \E i \in DOMAIN reqs : ListByDateFind(i)

NextGate == GateRequest \/ GateStep \/ CheckInStep

SpecGate == InitGate /\ [][NextGate]_vars

-----------------------------------------------------------------------------
(* Properties of the gate.                                                 *)

\* The requests received in this step.
Received == DOMAIN reqs' \ DOMAIN reqs

\* The event-scoped handlers other than DELETE, which is the creator's alone.
EventScoped == {"getEvent", "search", "checkin", "listParticipants", "listByDate"}

\* The request carries the fields its handler requires.
WellFormed(r) ==
  CASE r.kind = "search" -> r.eventId # NoId /\ r.idNumber # absent
    [] r.kind = "checkin" ->
         /\ r.eventId # NoId /\ r.idNumber # absent
         /\ r.body.name # absent /\ r.body.dateOfBirth # absent /\ r.body.sex # absent
    [] OTHER -> TRUE

\* The request is answered at once with this status and no data, and
\* nothing is stored or looked up.
Refused(r, status) ==
  /\ r.pc = "done"
  /\ r.status = status
  /\ r.data = <<>>
  /\ store' = store
  /\ gatewayCalls' = gatewayCalls

\* C9: an event-scoped request for an existing event that canAccess denies
\* to its account is answered 403 at once, with no event or participant
\* data, no gateway lookup and no change to the store, and one for an absent
\* event is answered 404 likewise; a request that lacks a required body
\* field is refused in the same way with 400, before the event is read.
C9_Gated ==
  [][\A i \in Received :
       LET r == reqs'[i] IN
         r.kind \in EventScoped =>
           /\ EventRows(r.eventId) = {} =>
                Refused(r, IF WellFormed(r) THEN 404 ELSE 400)
           /\ (\E ev \in EventRows(r.eventId) : ~CanAccess(ev, Users[r.user])) =>
                Refused(r, IF WellFormed(r) THEN 403 ELSE 400)]_vars

\* A check-in with every field, for an event with a participant, by an
\* account that canAccess denies, has been answered 403.
C9_Witness ==
  \E i \in DOMAIN reqs :
    /\ reqs[i].kind = "checkin" /\ WellFormed(reqs[i])
    /\ reqs[i].status = 403 /\ reqs[i].pc = "done"
    /\ \E ev \in EventRows(reqs[i].eventId) :
         /\ ~CanAccess(ev, Users[reqs[i].user])
         /\ \E p \in participants : p.eventId = ev.eventId

\* The stored events canAccess grants to the account.
Accessible(user) == {e \in events : CanAccess(e, user)}

\* data lists exactly the ids of S, each once, newest first.
NewestFirst(data, S) ==
  /\ {data[k] : k \in DOMAIN data} = {e.eventId : e \in S}
  /\ Len(data) = Cardinality(S)
  /\ \A k, l \in DOMAIN data :
       k < l => \A a, b \in S :
                  a.eventId = data[k] /\ b.eventId = data[l] => a.createdAt >= b.createdAt

\* C10 as stated: listEvents answers every account, a delegate with no
\* owner reference included, with exactly the events canAccess grants it,
\* newest first.
C10_ListsAccessible ==
  [][\A i \in Received :
       LET r == reqs'[i] IN
         r.kind = "listEvents" =>
           r.status = 200 /\ NewestFirst(r.data, Accessible(Users[r.user]))]_vars

\* C10: listEvents answers an owner, and a delegate that has an owner
\* reference, with exactly the events canAccess grants it, newest first; a
\* delegate with no owner reference is answered 403 and no list.
C10_ListsAccessibleOr403 ==
  [][\A i \in Received :
       LET r == reqs'[i]
           user == Users[r.user] IN
         r.kind = "listEvents" =>
           IF user.role = USER /\ user.adminId = null
             THEN r.pc = "done" /\ r.status = 403 /\ r.data = <<>>
             ELSE /\ r.pc = "done" /\ r.status = 200
                  /\ NewestFirst(r.data, Accessible(user))]_vars

\* A delegate has listed the two events of its owner, the later one first,
\* while another owner's event is stored.
C10_Witness ==
  \E i \in DOMAIN reqs :
    /\ reqs[i].kind = "listEvents" /\ reqs[i].status = 200
    /\ Users[reqs[i].user].role = USER
    /\ Len(reqs[i].data) = 2
    /\ \E e \in events : ~CanAccess(e, Users[reqs[i].user])

\* The rows of the store that reference the event.
Dependents(eventId) ==
  {p \in participants : p.eventId = eventId} \cup {l \in checkInLogs : l.eventId = eventId}

\* C11 as stated: a delete by the owner that created the event is answered
\* 200 whatever the event holds, and then the event and every participant
\* and check-in that referenced it are gone.
C11_DeleteCascades ==
  [][\A i \in DOMAIN reqs :
       (At(i, "deleteEvent", "removeEvent") /\ reqs'[i].pc = "done") =>
         /\ reqs'[i].status = 200
         /\ (EventRows(reqs[i].eventId))' = {}
         /\ (Dependents(reqs[i].eventId))' = {}]_vars

\* C12: a delete of an existing event by an account other than the owner
\* that created it (another owner, or a delegate with or without access) is
\* answered 403 at once and the store is as before.
C12_DeleteForbidden ==
  [][\A i \in Received :
       LET r == reqs'[i] IN
         (r.kind = "deleteEvent" /\ \E ev \in EventRows(r.eventId) : ev.createdById # r.user)
           => Refused(r, 403)]_vars

\* A delegate with access to an event that has a participant and a check-in
\* has asked for its deletion and been answered 403.
C12_Witness ==
  \E i \in DOMAIN reqs :
    /\ reqs[i].kind = "deleteEvent" /\ reqs[i].status = 403
    /\ Users[reqs[i].user].role = USER
    /\ \E ev \in EventRows(reqs[i].eventId) : CanAccess(ev, Users[reqs[i].user])
    /\ Dependents(reqs[i].eventId) # {}

-----------------------------------------------------------------------------
(* Identity verification: searches by any account, two in flight at once,  *)
(* over a store that earlier requests have filled.                         *)

\* What the caller may put in the body of a search besides eventId and
\* idNumber: nothing, or region values of its own.
SearchBodies ==
  {NoBody, [NoBody EXCEPT !.county = "X", !.constituency = "Y", !.ward = "Z"]}

SearchRequest ==
  /\ Len(reqs) < MaxSearchReqs
  /\ \E u \in UserIds, e \in GateEventIds \cup {NoId}, idn \in {absent, "123"},
        b \in SearchBodies : SearchBegin(u, e, idn, b)

SearchStep == \E i \in DOMAIN reqs, o \in LookupOutcomes : SearchLookup(i, o)

NextSearch == SearchRequest \/ SearchStep

SpecSearch == InitGate /\ [][NextSearch]_vars

-----------------------------------------------------------------------------
(* Properties of identity verification.  No step of SpecSearch changes the *)
(* events, so the event of a call is the one stored.                       *)

\* C13 as stated: the gateway is never given the ward of an event without
\* its constituency; for an event with county R, no constituency and ward L
\* the filters are the county alone.
C13_Progressive ==
  \A c \in gatewayCalls : c.filters.ward # absent => c.filters.constituency # absent

\* C14: a gateway call carries the idNumber of its request and, level by
\* level, either no filter or the stored event's own value, the county
\* always; and two searches for the same event and idNumber make the same
\* call, whatever else their bodies hold.
C14_FiltersFromEvent ==
  /\ \A c \in gatewayCalls :
       LET r == reqs[c.req] IN
         /\ c.idNumber = r.idNumber
         /\ \E ev \in EventRows(r.eventId) :
              /\ c.filters.county = ev.county
              /\ c.filters.constituency \in {absent, ev.constituency}
              /\ c.filters.ward \in {absent, ev.ward}
              /\ c.filters.constituency = absent => ev.constituency = null
              /\ c.filters.ward = absent => ev.ward = null
  /\ \A c1, c2 \in gatewayCalls :
       (/\ reqs[c1.req].eventId = reqs[c2.req].eventId
        /\ reqs[c1.req].idNumber = reqs[c2.req].idNumber)
         => c1.filters = c2.filters /\ c1.idNumber = c2.idNumber

\* Two searches for the same event and idNumber, one with region values of
\* the caller's in its body and one without, have both reached the gateway.
C14_Witness ==
  \E c1, c2 \in gatewayCalls :
    /\ reqs[c1.req].eventId = reqs[c2.req].eventId
    /\ reqs[c1.req].idNumber = reqs[c2.req].idNumber
    /\ reqs[c1.req].body.county = "X"
    /\ reqs[c2.req].body.county = absent
    /\ c1.filters.constituency # absent

\* C15: every step of a search, from its receipt to its answer, leaves the
\* events, participants and check-ins as they were.
C15_SearchReadOnly ==
  [][(\/ \E i \in Received : reqs'[i].kind = "search"
      \/ \E i \in DOMAIN reqs : reqs[i].kind = "search" /\ reqs'[i] # reqs[i])
       => store' = store]_vars

\* One search has found its voter and another has met a gateway failure,
\* over a store that holds participants and check-ins.
C15_Witness ==
  /\ \E i, j \in DOMAIN reqs :
       /\ reqs[i].kind = "search" /\ reqs[i].lookup = "found" /\ reqs[i].pc = "done"
       /\ reqs[j].kind = "search" /\ reqs[j].lookup = "error" /\ reqs[j].pc = "done"
  /\ participants # {}
  /\ checkInLogs # {}

\* C16: a search the gateway answered with no record is answered 404, one
\* whose gateway call threw is answered 500, neither with a participant;
\* a search is answered 500 only after a throw, and with a participant only
\* after the gateway found one.
C16_NoMatchOrUnavailable ==
  \A i \in DOMAIN reqs :
    (reqs[i].kind = "search" /\ reqs[i].pc = "done") =>
      /\ reqs[i].lookup = "none" => reqs[i].status = 404 /\ reqs[i].data = <<>>
      /\ reqs[i].lookup = "error" => reqs[i].status = 500 /\ reqs[i].data = <<>>
      /\ reqs[i].status = 500 => reqs[i].lookup = "error"
      /\ reqs[i].data # <<>> => reqs[i].lookup = "found" /\ reqs[i].status = 200

\* One search was answered 404 for no match and another 500 for a failure.
C16_Witness ==
  \E i, j \in DOMAIN reqs :
    /\ reqs[i].lookup = "none" /\ reqs[i].status = 404
    /\ reqs[j].lookup = "error" /\ reqs[j].status = 500

-----------------------------------------------------------------------------
(* The check-in log under every operation.                                 *)

\* C17: a check-in row of the store is in the store after every step, with
\* the same fields, unless the step is the removal of its event by a delete
\* request.
C17_AppendOnly ==
  [][\A l \in checkInLogs :
       \/ l \in checkInLogs'
       \/ \E i \in DOMAIN reqs :
            /\ At(i, "deleteEvent", "removeEvent")
            /\ reqs[i].eventId = l.eventId
            /\ reqs'[i].pc = "done"]_vars

\* A participant with a check-in of an earlier day has checked in again, and
\* both rows are stored.
C17_Witness ==
  \E i \in DOMAIN reqs :
    /\ reqs[i].kind = "checkin" /\ reqs[i].status = 201
    /\ \E l1, l2 \in checkInLogs :
         /\ l1.id = i /\ l2.id # i
         /\ l1.participantId = l2.participantId
         /\ l1.eventId = l2.eventId
         /\ l1.checkInDate # l2.checkInDate

-----------------------------------------------------------------------------
(* Validation.                                                             *)

\* C18 as stated: a check-in for an event the account can access that lacks
\* idNumber, name, dateOfBirth or sex, or whose dateOfBirth does not parse
\* to a date, is answered 400; and no stored participant has an invalid
\* date of birth.
C18_ValidationError ==
  /\ \A i \in DOMAIN reqs :
       LET r == reqs[i] IN
         (/\ r.kind = "checkin" /\ r.pc = "done"
          /\ \E ev \in EventRows(r.eventId) : CanAccess(ev, Users[r.user])
          /\ \/ r.idNumber = absent \/ r.body.name = absent
             \/ r.body.dateOfBirth = absent \/ r.body.sex = absent
             \/ NewDate(r.body.dateOfBirth) = InvalidDate)
           => r.status = 400
  /\ \A p \in participants : p.dateOfBirth # InvalidDate

\* C19: a create by an owner without a name or a county is answered 400 at
\* once and nothing is stored (a create by a delegate is answered 403
\* likewise); any other create by an owner is answered 201 and adds exactly
\* one event, with the name and county of the request and the requesting
\* account as its owner; so every stored event has a name, a county and an
\* owner account.
C19_CreateEvent ==
  [][/\ \A i \in Received :
          LET r == reqs'[i] IN
            r.kind = "createEvent" =>
              IF Users[r.user].role # ADMIN THEN Refused(r, 403)
              ELSE IF r.body.eventName = absent \/ r.body.county = absent
                THEN Refused(r, 400)
              ELSE r.pc = "saveEvent" /\ store' = store
     /\ \A i \in DOMAIN reqs :
          (At(i, "createEvent", "saveEvent") /\ reqs'[i] # reqs[i]) =>
               /\ reqs'[i].pc = "done" /\ reqs'[i].status = 201
               /\ \E e \in events' \ events :
                    /\ events' = events \cup {e}
                    /\ EventRows(e.eventId) = {}
                    /\ e.createdById = reqs[i].user
                    /\ e.eventName = reqs[i].body.eventName
                    /\ e.county = reqs[i].body.county
               /\ participants' = participants /\ checkInLogs' = checkInLogs
     /\ \A e \in events' :
          /\ e.eventName # absent /\ e.county # absent
          /\ e.createdById \in UserIds /\ Users[e.createdById].role = ADMIN]_vars

\* An owner's create has been answered 201 and its event is stored with the
\* events of before.
C19_Witness ==
  \E i \in DOMAIN reqs :
    /\ reqs[i].kind = "createEvent" /\ reqs[i].status = 201
    /\ \E e \in EventRows(reqs[i].eventId) : e.createdById = reqs[i].user
    /\ Cardinality(events) > 1

-----------------------------------------------------------------------------
(* Accounts: POST /signup, /login, /refresh and /logout over the users     *)
(* table.  userRepository.save(user) writes the entity the handler holds   *)
(* over the row of its id (or inserts it when the id is new).              *)

\* The ids the store generates for the accounts that sign up, by request.
SignupIds == <<"n1", "n2", "n3", "n4">>

\* A request of the account routes; user is the entity the handler holds.
AccountRequest(kind, name, email, password, cookie) ==
  [kind |-> kind, name |-> name, email |-> email, password |-> password,
   cookie |-> cookie, pc |-> "start", user |-> null, status |-> 0, data |-> <<>>]

\* generateRefreshToken(tokenPayload) of request i: a token for the user.
RefreshToken(userId, i) == [userId |-> userId, issue |-> i]

\* userRepository.findOne({ where: { email } })
UsersByEmail(email) == {u \in users : u.email = email}

\* userRepository.findOne({ where: { id } })
UsersById(id) == {u \in users : u.id = id}

\* userRepository.save(user) of an entity that has an id.
SaveUser(user) == users' = {u \in users : u.id # user.id} \cup {user}

\* The handler holds the entity and goes on to save its refresh token.
Hold(r, user) == reqs' = Append(reqs, [r EXCEPT !.pc = "saveToken", !.user = user])

SignupBegin(name, email, password) ==
  /\ LET r == AccountRequest("signup", name, email, password, NoToken) IN
       IF Falsy(name) \/ Falsy(email) \/ Falsy(password) THEN Answer(r, 400, <<>>)
       ELSE IF UsersByEmail(email) # {} THEN Answer(r, 400, <<>>)
       ELSE Enter(r, "insertUser")
  /\ UNCHANGED <<store, now, nextEventId, gatewayCalls, access, users, zone>>

\* userRepository.create({ name, email, password, role: UserRole.USER }) and
\* its save; the email column is unique.
SignupInsert(i) ==
  /\ At(i, "signup", "insertUser")
  /\ LET user == [id |-> SignupIds[i], name |-> reqs[i].name, email |-> reqs[i].email,
                  password |-> reqs[i].password, role |-> USER, adminId |-> null,
                  refreshToken |-> NoToken] IN
       IF UsersByEmail(user.email) # {}
         THEN /\ Respond(i, 500, <<>>)
              /\ UNCHANGED users
         ELSE /\ users' = users \cup {user}
              /\ reqs' = [reqs EXCEPT ![i].pc = "saveToken", ![i].user = user]
  /\ UNCHANGED <<store, now, nextEventId, gatewayCalls, access, zone>>

LoginBegin(email, password) ==
  /\ LET r == AccountRequest("login", absent, email, password, NoToken) IN
       IF Falsy(email) \/ Falsy(password) THEN Answer(r, 400, <<>>)
       ELSE IF UsersByEmail(email) = {} THEN Answer(r, 401, <<>>)
       ELSE \E user \in UsersByEmail(email) :
              IF user.password # password THEN Answer(r, 401, <<>>)
              ELSE Hold(r, user)
  /\ UNCHANGED <<store, now, nextEventId, gatewayCalls, access, users, zone>>

\* A cookie that verifyToken rejects.
BadToken == [userId |-> absent, issue |-> NoId]

RefreshBegin(cookie) ==
  /\ LET r == AccountRequest("refresh", absent, absent, absent, cookie) IN
       IF cookie = NoToken THEN Answer(r, 401, <<>>)
       ELSE IF cookie = BadToken THEN Answer(r, 401, <<>>)
       ELSE IF \A user \in UsersById(cookie.userId) : user.refreshToken # cookie
         THEN Answer(r, 401, <<>>)
       ELSE \E user \in UsersById(cookie.userId) : Hold(r, user)
  /\ UNCHANGED <<store, now, nextEventId, gatewayCalls, access, users, zone>>

\* authenticate has put the account of the access token in req.user.
LogoutBegin(id) ==
  /\ \E user \in UsersById(id) :
       Hold(AccountRequest("logout", absent, absent, absent, NoToken), user)
  /\ UNCHANGED <<store, now, nextEventId, gatewayCalls, access, users, zone>>

\* A refresh that makes the account an admin.
SaveToken_Promotes(i) ==
  /\ reqs[i].pc = "saveToken"
  /\ LET r == reqs[i]
         token == IF r.kind = "logout" THEN NoToken ELSE RefreshToken(r.user.id, i) IN
       /\ SaveUser([r.user EXCEPT !.refreshToken = token,
                                  !.role = IF r.kind = "refresh" THEN ADMIN ELSE @])
       /\ Respond(i, IF r.kind = "signup" THEN 201 ELSE 200,
                  IF r.kind = "logout" THEN <<>> ELSE <<token>>)
  /\ UNCHANGED <<store, now, nextEventId, gatewayCalls, access, zone>>

\* user.refreshToken = refreshToken (null at logout); await
\* userRepository.save(user); the response.
SaveToken(i) ==
  /\ reqs[i].pc = "saveToken"
  /\ LET r == reqs[i]
         token == IF r.kind = "logout" THEN NoToken ELSE RefreshToken(r.user.id, i) IN
       /\ SaveUser([r.user EXCEPT !.refreshToken = token])
       /\ Respond(i, IF r.kind = "signup" THEN 201 ELSE 200,
                  IF r.kind = "logout" THEN <<>> ELSE <<token>>)
  /\ UNCHANGED <<store, now, nextEventId, gatewayCalls, access, zone>>

\* The cookies a client may send: none, one that does not verify, and the
\* refresh tokens the responses have carried.
Cookies == {NoToken, BadToken} \cup {reqs[i].data[1] : i \in {j \in Done : reqs[j].data # <<>>}}

\* The accounts that hold an access token: those of the store at the start,
\* and those a signup, login or refresh has answered with one.
Authenticated ==
  UserIds \cup {reqs[i].user.id :
                  i \in {j \in Done : /\ reqs[j].kind \in {"signup", "login", "refresh"}
                                      /\ reqs[j].status \in {200, 201}}}

AccountRequestStep ==
  /\ Len(reqs) < MaxAccountReqs
  /\ \/ \E name \in {absent, "Ann"}, email \in {absent, "u1", "new"},
           password \in {absent, "secret"} : SignupBegin(name, email, password)
     \/ \E email \in {absent, "a1", "u1", "new", "none"}, password \in {"secret", "guess"} :
          LoginBegin(email, password)
     \/ \E cookie \in Cookies : RefreshBegin(cookie)
     \/ \E id \in Authenticated : LogoutBegin(id)

AccountStep ==
  \/ \E i \in DOMAIN reqs : SignupInsert(i)
  \/ \E i \in DOMAIN reqs : SaveToken(i)

NextAccounts == AccountRequestStep \/ AccountStep

SpecAccounts == Init /\ [][NextAccounts]_vars

\* C20: every step of signup, login, refresh and logout leaves each row of
\* the users table with its id, name, email, password, role and owner reference,
\* one row per id: only the refresh token of a row changes.
C20_RoleImmutable ==
  [][\A u \in users :
       \E v \in users' :
         /\ v.id = u.id /\ v.name = u.name /\ v.email = u.email
         /\ v.password = u.password
         /\ v.role = u.role /\ v.adminId = u.adminId
         /\ \A w \in users' : w.id = u.id => w = v]_vars

\* A delegate attached to an owner has logged in, refreshed its token and
\* logged out, and is the delegate of that owner still.
C20_Witness ==
  /\ \E i, j, k \in DOMAIN reqs :
       /\ reqs[i].kind = "login" /\ reqs[i].status = 200 /\ reqs[i].user.id = "u1"
       /\ reqs[j].kind = "refresh" /\ reqs[j].status = 200 /\ reqs[j].user.id = "u1"
       /\ reqs[k].kind = "logout" /\ reqs[k].status = 200 /\ reqs[k].user.id = "u1"
  /\ \E u \in users : u.id = "u1" /\ u.role = USER /\ u.adminId = "a1"

-----------------------------------------------------------------------------
(* Identity verification over a store that holds a row the routes do not   *)
(* write: the county column is varchar NOT NULL, which admits the empty    *)
(* string, while POST /events refuses a body without a county.  The search *)
(* handler guards against such a row.                                      *)

\* An event of the first admin whose county is the empty string.
NoCountyEvent ==
  [eventId |-> Cardinality(GateEvents) + 1, eventName |-> "Rally", county |-> absent,
   constituency |-> "M", ward |-> null, createdById |-> "a1", createdAt |-> 0]

InitNoCounty ==
  /\ events = GateEvents \cup {NoCountyEvent}
  /\ participants = {}
  /\ checkInLogs = {}
  /\ reqs = <<>>
  /\ now = TicksPerDay
  /\ nextEventId = Cardinality(GateEvents) + 2
  /\ gatewayCalls = {}
  /\ access = NoAccess
  /\ users = UserRows
  /\ zone = 0

NoCountySearchRequest ==
  /\ Len(reqs) < MaxSearchReqs
  /\ \E u \in UserIds, e \in {ev.eventId : ev \in events} \cup {NoId, nextEventId},
        idn \in {absent, "123"} : SearchBegin(u, e, idn, NoBody)

NextNoCounty == NoCountySearchRequest \/ SearchStep

SpecNoCounty == InitNoCounty /\ [][NextNoCounty]_vars

\* C21: a search with eventId and idNumber for an event without a county is
\* answered 400 at once with no gateway call when the account has access to
\* the event, and 403 when it has not; for an event that is not stored the
\* answer is 404.
C21_NoCounty ==
  [][\A i \in Received :
       LET r == reqs'[i] IN
         (r.kind = "search" /\ WellFormed(r)) =>
           /\ EventRows(r.eventId) = {} => Refused(r, 404)
           /\ \A ev \in EventRows(r.eventId) :
                Falsy(ev.county) =>
                  Refused(r, IF CanAccess(ev, Users[r.user]) THEN 400 ELSE 403)]_vars

\* The owner of the event without a county has been answered 400 and another
\* account 403, and the gateway was not called.
C21_Witness ==
  /\ \E i, j \in DOMAIN reqs :
       /\ reqs[i].kind = "search" /\ reqs[i].eventId = NoCountyEvent.eventId
       /\ reqs[i].user = "a1" /\ reqs[i].status = 400 /\ reqs[i].idNumber = "123"
       /\ reqs[j].kind = "search" /\ reqs[j].eventId = NoCountyEvent.eventId
       /\ reqs[j].user = "a2" /\ reqs[j].status = 403 /\ reqs[j].idNumber = "123"
  /\ gatewayCalls = {}

-----------------------------------------------------------------------------
(* The date and the timestamp of a check-in, while the clock runs.         *)

\* C22 as stated: the date of every check-in row is the midnight of the day
\* of the row's own timestamp, wherever the clock stands between the steps
\* of the check-in.
C22_DateOfTimestamp ==
  \A l \in checkInLogs : l.checkInDate = StartOfDay(l.checkedInAt)

\* C22: the date of every check-in row is the midnight of the day on which
\* its handler read the clock before looking for a check-in of today; the
\* timestamp is read after that look, so it is not before the date, and the
\* date is the day of the timestamp unless midnight passed in between.
C22_DateOfFirstRead ==
  \A l \in checkInLogs :
    /\ l.id \in DOMAIN reqs
    /\ l.checkInDate = reqs[l.id].today
    /\ l.checkInDate = StartOfDay(l.checkInDate)
    /\ l.checkInDate <= l.checkedInAt
    /\ l.checkedInAt < l.checkInDate + TicksPerDay => l.checkInDate = StartOfDay(l.checkedInAt)

\* One check-in is recorded with a timestamp of the day after its date, and
\* another with a timestamp later in the day of its date.
C22_Witness ==
  \E l1, l2 \in checkInLogs :
    /\ l1.checkInDate # StartOfDay(l1.checkedInAt)
    /\ l2.checkInDate = StartOfDay(l2.checkedInAt) /\ l2.checkInDate # l2.checkedInAt

-----------------------------------------------------------------------------
(* Reports: an admin checks participants in at its events and then queries *)
(* the check-ins of a date and the participants of an event, while the     *)
(* clock runs, on a server in any time zone.                               *)

\* The hours the clock of the server is ahead of UTC: behind, equal, ahead.
Zones == {-1, 0, 1}

InitReport ==
  /\ events = {e \in GateEvents : e.createdById = "a1"}
  /\ participants = {}
  /\ checkInLogs = {}
  /\ reqs = <<>>
  /\ now = 0
  /\ nextEventId = Cardinality(GateEvents) + 1
  /\ gatewayCalls = {}
  /\ access = NoAccess
  /\ users = UserRows
  /\ zone \in Zones

\* One request after another: the queries come after the check-ins answered.
ReportRequest ==
  /\ Len(reqs) < MaxReportReqs
  /\ Done = DOMAIN reqs
  /\ \E e \in {ev.eventId : ev \in events} :
       \/ CheckInBegin("a1", e, "123", Ann)
       \/ ListParticipantsBegin("a1", e)
       \/ \E d \in DateParams : ListByDateBegin("a1", e, d)

ReportStep ==
  \/ \E i \in DOMAIN reqs : ListParticipantsFind(i)
  \/ \E i \in DOMAIN reqs : ListByDateFind(i)

NextReport == ReportRequest \/ ReportStep \/ CheckInStep \/ Tick

SpecReport == InitReport /\ [][NextReport]_vars

\* The check-ins of an event recorded for the day that starts at midnight d.
CheckInsOn(eventId, d) ==
  {l \in checkInLogs : l.eventId = eventId /\ l.checkInDate = d}

\* data lists exactly the check-ins of S, each once, latest first.
LatestFirst(data, S) ==
  /\ {data[k].checkInId : k \in DOMAIN data} = {l.id : l \in S}
  /\ Len(data) = Cardinality(S)
  /\ \A k, m \in DOMAIN data :
       k < m => \A a, b \in S :
                  a.id = data[k].checkInId /\ b.id = data[m].checkInId
                    => a.checkedInAt >= b.checkedInAt

\* C23 as stated: the query of an event and a date is answered with exactly
\* the stored check-ins of that event whose checkInDate is that date, latest
\* first, so that a recorded check-in of day d is in the answer for d and in
\* no other; and the query of an event's participants shows every stored
\* check-in of the event in the history of its participant.
C23_Visible ==
  [][\A i \in DOMAIN reqs :
       /\ (At(i, "listByDate", "findCheckIns") /\ reqs'[i].pc = "done") =>
            /\ reqs'[i].status = 200
            /\ LatestFirst(reqs'[i].data,
                           CheckInsOn(reqs[i].eventId, DayStart(reqs[i].date)))
       /\ (At(i, "listParticipants", "findParticipants") /\ reqs'[i].pc = "done") =>
            /\ reqs'[i].status = 200
            /\ \A l \in checkInLogs :
                 l.eventId = reqs[i].eventId =>
                   \E k \in DOMAIN reqs'[i].data :
                     /\ reqs'[i].data[k].id = l.participantId
                     /\ l.id \in reqs'[i].data[k].checkInLogs]_vars

-----------------------------------------------------------------------------
(* The participant write of a rejected check-in.                           *)

\* The row carries the demographic fields of the payload.
Carries(p, b) ==
  /\ p.name = b.name
  /\ p.dateOfBirth = DateOfBirth(b.dateOfBirth)
  /\ p.sex = b.sex
  /\ p.county = Stored(b.county)
  /\ p.constituency = Stored(b.constituency)
  /\ p.ward = Stored(b.ward)
  /\ p.pollingCenter = Stored(b.pollingCenter)

\* The check-ins answered 400 AlreadyCheckedIn.
Rejected == {i \in CheckIns : reqs[i].pc = "done" /\ reqs[i].status = 400}

\* C24: the step that rejects a check-in as AlreadyCheckedIn leaves the
\* check-in logs as they are and has stored no log for the request, and the
\* participant of the request already carries the demographic fields of the
\* rejected request; a rejected request never gets a log afterwards.
C24_RejectedOverwrites ==
  [][/\ \A i \in CheckIns :
          (reqs[i].pc = "findCheckIn" /\ reqs'[i].pc = "done" /\ reqs'[i].status = 400) =>
            /\ checkInLogs' = checkInLogs
            /\ ~\E l \in checkInLogs' : l.id = i
            /\ \E p \in participants' :
                 /\ p.id = reqs[i].participantId
                 /\ p.eventId = reqs[i].eventId /\ p.idNumber = reqs[i].idNumber
                 /\ Carries(p, reqs[i].body)
     /\ \A i \in Rejected : ~\E l \in checkInLogs' : l.id = i]_vars

\* A check-in recorded with one payload, and a second one of the same day
\* rejected with another payload, whose fields the participant now has.
C24_Witness ==
  \E i \in CheckIns, j \in Rejected :
    /\ i < j /\ SameKey(i, j)
    /\ reqs[i].pc = "done" /\ reqs[i].status = 201
    /\ reqs[i].body.name # reqs[j].body.name
    /\ reqs[i].body.pollingCenter # reqs[j].body.pollingCenter
    /\ \E p \in participants : p.id = reqs[j].participantId /\ Carries(p, reqs[j].body)
    /\ Cardinality({l \in checkInLogs : l.participantId = reqs[j].participantId}) = 1

-----------------------------------------------------------------------------
(* Integrity: check-ins and deletions of events in flight together, over a *)
(* store that holds events of two admins, some with a participant and its  *)
(* check-in.                                                               *)

IntegrityRequest ==
  /\ Len(reqs) < MaxIntegrityReqs
  /\ \E u \in UserIds, e \in GateEventIds :
       \/ CheckInBegin(u, e, "123", Ann)
       \/ DeleteEventBegin(u, e)

IntegrityStep == \E i \in DOMAIN reqs : DeleteEventRemove(i)

NextIntegrity == IntegrityRequest \/ IntegrityStep \/ CheckInStep

SpecIntegrity == InitGate /\ [][NextIntegrity]_vars

\* C25: every check-in log has the event of the participant it references,
\* and the account that recorded it is one that can access that event.
C25_LogOfItsEvent ==
  \A l \in checkInLogs :
    /\ \E p \in participants : p.id = l.participantId /\ p.eventId = l.eventId
    /\ \A p \in participants : p.id = l.participantId => p.eventId = l.eventId
    /\ l.checkedInById \in UserIds
    /\ \A ev \in EventRows(l.eventId) : CanAccess(ev, Users[l.checkedInById])
    /\ l.id \in DOMAIN reqs =>
         /\ reqs[l.id].user = l.checkedInById
         /\ reqs[l.id].eventId = l.eventId

\* A delegate has recorded a check-in at an event of its admin, for a
\* participant found in the store, while a request of an account without
\* access to that event was refused.
C25_Witness ==
  \E l \in checkInLogs, i \in DOMAIN reqs :
    /\ l.id \in DOMAIN reqs /\ l.checkedInById = "u1" /\ l.participantId < 0
    /\ reqs[i].kind = "checkin" /\ reqs[i].eventId = l.eventId /\ reqs[i].status = 403

\* C26: every participant references an event of the store, and every
\* check-in log references a participant and an event of the store.
C26_ReferentialIntegrity ==
  /\ \A p \in participants : EventRows(p.eventId) # {}
  /\ \A l \in checkInLogs :
       /\ EventRows(l.eventId) # {}
       /\ \E p \in participants : p.id = l.participantId

\* An event was deleted while a check-in at it was in flight: the delete is
\* answered 200, and the check-in, gated before the delete, 500.
C26_Witness ==
  \E i, j \in DOMAIN reqs :
    /\ reqs[i].kind = "checkin" /\ reqs[j].kind = "deleteEvent"
    /\ i < j /\ reqs[i].eventId = reqs[j].eventId
    /\ reqs[j].pc = "done" /\ reqs[j].status = 200
    /\ reqs[i].pc = "done" /\ reqs[i].status = 500
    /\ EventRows(reqs[i].eventId) = {}

-----------------------------------------------------------------------------
(* Properties of the refresh tokens.                                       *)

\* The refresh requests answered 200.
Redeemed == {i \in Done : reqs[i].kind = "refresh" /\ reqs[i].status = 200}

\* C27: a refresh succeeds only with the token the account has stored, and
\* of the requests that present one token, one after another or together, at
\* most one succeeds.
C27_RedeemedOnce ==
  \A i, j \in Redeemed : reqs[i].cookie = reqs[j].cookie => i = j

\* The refresh token the store holds for the account.
StoredToken(id) == {u.refreshToken : u \in UsersById(id)}

\* The accounts of which a logout has been answered.
LoggedOut == {reqs[i].user.id : i \in {j \in Done : reqs[j].kind = "logout"}}

\* Request i is answered in this step.
Completes(i) == reqs[i].pc # "done" /\ reqs'[i].pc = "done"

\* C28: when a logout is answered the stored refresh token of its account is
\* null; from then on the stored token stays null until a login of the
\* account is answered, and a refresh received while it is null is answered
\* 401.
C28_LoggedOutUntilLogin ==
  [][/\ \A i \in DOMAIN reqs :
          (reqs[i].kind = "logout" /\ Completes(i)) =>
            (StoredToken(reqs[i].user.id))' = {NoToken}
     /\ \A id \in LoggedOut :
          (StoredToken(id) = {NoToken} /\ (StoredToken(id))' # {NoToken}) =>
            \E i \in DOMAIN reqs :
              /\ reqs[i].kind = "login" /\ Completes(i)
              /\ reqs'[i].status = 200 /\ reqs[i].user.id = id
     /\ \A i \in Received :
          (/\ reqs'[i].kind = "refresh"
           /\ reqs'[i].cookie.userId \in LoggedOut
           /\ StoredToken(reqs'[i].cookie.userId) = {NoToken}) =>
            reqs'[i].pc = "done" /\ reqs'[i].status = 401]_vars

====
